---- MODULE Spec2Model ----
(***************************************************************************)
(* A model of markupsafe: the escape primitive (_native.escape_inner), the *)
(* Markup string type and its content-combining operations, the           *)
(* EscapeFormatter used by format/format_map, and the _MarkupEscapeHelper  *)
(* used by %-interpolation.                                                *)
(*                                                                         *)
(* Text is a sequence of one-character strings.  A Python value is a       *)
(* record tagged by its field k ("str", "Markup", "int", "float", "obj",   *)
(* "tuple", "dict", "none"); a raised exception is the record Raise(e),    *)
(* which every operator passes on unchanged, as Python unwinds the stack.  *)
(***************************************************************************)
EXTENDS Integers, Sequences, FiniteSets, TLC

VARIABLES
    self,   \* the safe string the program holds: a Markup value
    made,   \* how self was made: "init", "Markup", "escape", "escape_inner"
            \* or "rebind"
    op,     \* the operation applied last
    arg,    \* its operand
    res     \* what it returned or raised

vars == <<self, made, op, arg, res>>

(***************************************************************************)
(* Bounds of the model.                                                    *)
(***************************************************************************)
\* longest text given to escape_inner in SpecEscape
MaxEscLen == 3
\* longest plain-text operand in Spec
MaxLen == 2
\* longest plain-text operand in SpecTaint
MaxTaintLen == 1
\* longest content a chain of SpecTaint carries on with
MaxContent == 8
\* largest repetition count
MaxRepeat == 2
\* most pieces of markup in a text given to striptags
MaxPieces == 3
\* longest text of references given to unescape
MaxRefLen == 4

(***************************************************************************)
(* Text helpers.                                                           *)
(***************************************************************************)
RECURSIVE Concat(_)
\* the concatenation of a sequence of texts
Concat(ss) ==
    IF ss = <<>> THEN <<>> ELSE Head(ss) \o Concat(Tail(ss))

\* all texts over alphabet A of length at most n
TextsUpTo(A, n) == UNION {[1..k -> A] : k \in 0..n}

\* does text s hold character c
Has(s, c) == \E i \in 1..Len(s) : s[i] = c

\* is p a prefix of s starting at position i (1-based)
MatchAt(s, p, i) ==
    /\ i + Len(p) - 1 <= Len(s)
    /\ \A j \in 1..Len(p) : s[i + j - 1] = p[j]

(***************************************************************************)
(* The escape primitive.                                                   *)
(***************************************************************************)
RECURSIVE str_replace(_, _, _)
\* str.replace(old, new) for a one-character old: every occurrence, left to
\* right, in one pass over the text as it was when the call started
str_replace(s, old, new) ==
    IF s = <<>> THEN <<>>
    ELSE (IF Head(s) = old THEN new ELSE <<Head(s)>>)
         \o str_replace(Tail(s), old, new)

AMP  == <<"&", "a", "m", "p", ";">>
GT   == <<"&", "g", "t", ";">>
LT   == <<"&", "l", "t", ";">>
APOS == <<"&", "#", "3", "9", ";">>
QUOT == <<"&", "#", "3", "4", ";">>

\* a slip in the order of the passes: the ampersand replaced last
escape_inner_amp_last(s) ==
    str_replace(
      str_replace(
        str_replace(
          str_replace(
            str_replace(s, ">", GT),
            "<", LT),
          "'", APOS),
        "\"", QUOT),
      "&", AMP)

\* _native.escape_inner: five whole-string replacements, & first
escape_inner(s) ==
    str_replace(
      str_replace(
        str_replace(
          str_replace(
            str_replace(s, "&", AMP),
            ">", GT),
          "<", LT),
        "'", APOS),
      "\"", QUOT)

(***************************************************************************)
(* Python values.                                                          *)
(***************************************************************************)
Str(s)   == [k |-> "str", s |-> s]
Mk(s)    == [k |-> "Markup", s |-> s]
IntV(n)  == [k |-> "int", n |-> n]
\* the float w.f, f one decimal digit
FloatV(w, f) == [k |-> "float", w |-> w, f |-> f]
NoneV    == [k |-> "none"]
TupleV(items) == [k |-> "tuple", items |-> items]
\* the mapping {"k": val}
DictV(val) == [k |-> "dict", val |-> val]
\* An object of a user class.  html says what its __html__ does: "none" (no
\* such method), "str" (returns the plain text body), "Markup" (returns
\* Markup(body)) or "raise" (raises HtmlFailure).  fmt: it also has
\* __html_format__, which returns Markup(fbody).  text is its str().
Obj(html, body, fmt, fbody, text) ==
    [k |-> "obj", html |-> html, body |-> body, fmt |-> fmt,
     fbody |-> fbody, text |-> text]
\* an exception on its way up the stack
Raise(e) == [k |-> "raise", exc |-> e]
NotImplementedV == [k |-> "NotImplemented"]

IsRaise(v) == v.k = "raise"
\* the rest of a computation F after the step that gave v: an exception
\* passes by it
Bind(v, F(_)) == IF v.k = "raise" THEN v ELSE F(v)
\* the same with a handler G for the exception
Either(v, F(_), G(_)) == IF v.k = "raise" THEN G(v) ELSE F(v)
\* isinstance(v, str): Markup is a subclass of str
IsText(v)  == v.k \in {"str", "Markup"}

Digits == <<"0", "1", "2", "3", "4", "5", "6", "7", "8", "9">>

RECURSIVE IntText(_)
\* the decimal digits of n >= 0
IntText(n) ==
    IF n < 10 THEN <<Digits[n + 1]>>
    ELSE IntText(n \div 10) \o <<Digits[(n % 10) + 1]>>

\* repr() of a plain str: single quotes unless the text holds a single quote
\* and no double quote; the chosen quote and the backslash are escaped
str_repr(s) ==
    LET q == IF Has(s, "'") /\ ~Has(s, "\"") THEN "\"" ELSE "'"
        body == str_replace(str_replace(s, "\\", <<"\\", "\\">>), q, <<"\\", q>>)
    IN  <<q>> \o body \o <<q>>

\* Markup.__repr__: the class name around str's repr
Markup_repr(m) ==
    <<"M", "a", "r", "k", "u", "p", "(">> \o str_repr(m.s) \o <<")">>

RECURSIVE py_repr(_)
\* repr(v)
py_repr(v) ==
    CASE v.k = "str"    -> str_repr(v.s)
      [] v.k = "Markup" -> Markup_repr(v)
      [] v.k = "int"    -> IntText(v.n)
      [] v.k = "float"  -> IntText(v.w) \o <<".">> \o IntText(v.f)
      [] v.k = "none"   -> <<"N", "o", "n", "e">>
      [] v.k = "obj"    -> <<"<", "o", "b", "j", ">">>
      [] v.k = "dict"   -> <<"{", "'", "k", "'", ":", " ">> \o py_repr(v.val) \o <<"}">>
      [] v.k = "tuple"  ->
           LET n == Len(v.items)
               sep(i) == IF i < n THEN <<",", " ">> ELSE IF n = 1 THEN <<",">> ELSE <<>>
           IN  <<"(">> \o Concat([i \in 1..n |-> py_repr(v.items[i]) \o sep(i)]) \o <<")">>

\* str(v): the text of a str or Markup itself, an object's __str__, the
\* repr of everything else
py_str(v) ==
    CASE IsText(v)    -> Str(v.s)
      [] v.k = "obj"  -> Str(v.text)
      [] OTHER        -> Str(py_repr(v))

(***************************************************************************)
(* Markup construction and the escape entry point.                         *)
(***************************************************************************)
\* a slip: __html__ escaping the content again
Markup_html_rescan(m) == Mk(escape_inner(m.s))

\* Markup.__html__: the safe string itself
Markup_html(m) == m

\* hasattr(v, "__html__")
has_html(v) ==
    \/ v.k = "Markup"
    \/ v.k = "obj" /\ v.html # "none"

\* hasattr(v, "__html_format__")
has_html_format(v) ==
    \/ v.k = "Markup"
    \/ v.k = "obj" /\ v.fmt

\* v.__html__() for a value that has the method
call_html(v) ==
    IF v.k = "Markup" THEN Markup_html(v)
    ELSE CASE v.html = "str"    -> Str(v.body)
           [] v.html = "Markup" -> Mk(v.body)
           [] OTHER             -> Raise("HtmlFailure")

\* a slip: a failing __html__ swallowed, the object's text wrapped instead
Markup_new_swallow(object) ==
    IF has_html(object) /\ ~IsRaise(call_html(object))
    THEN Mk(py_str(call_html(object)).s)
    ELSE Mk(py_str(object).s)

\* Markup.__new__: the __html__ result, or the object, converted to text and
\* tagged safe with no escaping
Markup_new(object) ==
    Bind(IF has_html(object) THEN call_html(object) ELSE object,
         LAMBDA o : Mk(py_str(o).s))

\* escape(s): a value with __html__ is wrapped as it renders itself, any
\* other value is converted to text and passed through escape_inner
escape(s) ==
    Bind(IF has_html(s) THEN call_html(s) ELSE Str(escape_inner(py_str(s).s)),
         LAMBDA h : Markup_new(h))

\* Markup.escape: escape(), re-wrapped when it returned another class
Markup_escape(s) ==
    Bind(escape(s), LAMBDA rv : IF rv.k # "Markup" THEN Markup_new(rv) ELSE rv)

(***************************************************************************)
(* Markup.unescape: html.unescape of the content.                          *)
(***************************************************************************)
\* the printable ASCII characters, code points 32 to 126 (the grave accent,
\* which a TLA+ string cannot hold, by name)
Ascii ==
    <<
       " ", "!", "\"", "#", "$", "%", "&", "'", "(", ")", "*", "+",
       ",", "-", ".", "/", "0", "1", "2", "3", "4", "5", "6", "7",
       "8", "9", ":", ";", "<", "=", ">", "?", "@", "A", "B", "C",
       "D", "E", "F", "G", "H", "I", "J", "K", "L", "M", "N", "O",
       "P", "Q", "R", "S", "T", "U", "V", "W", "X", "Y", "Z", "[",
       "\\", "]", "^", "_", "GRAVE", "a", "b", "c", "d", "e", "f", "g",
       "h", "i", "j", "k", "l", "m", "n", "o", "p", "q", "r", "s",
       "t", "u", "v", "w", "x", "y", "z", "{", "|", "}", "~" >>

\* a character outside ASCII: the model keeps one of them
NonAscii == "U+"

\* the code point of an ASCII character
Ord(c) == 31 + CHOOSE i \in 1..Len(Ascii) : Ascii[i] = c

DecDigits == {Digits[i] : i \in 1..10}
HexDigits == DecDigits \cup {"a", "b", "c", "d", "e", "f", "A", "B", "C", "D", "E", "F"}
\* what may not stand in an entity name: [^\t\n\f <&#;]
NameStop == {"\t", "\n", "\f", " ", "<", "&", "#", ";"}

\* the value of a hexadecimal digit
HexVal(c) ==
    IF c \in DecDigits THEN CHOOSE i \in 0..9 : Digits[i + 1] = c
    ELSE CASE c \in {"a", "A"} -> 10 [] c \in {"b", "B"} -> 11
           [] c \in {"c", "C"} -> 12 [] c \in {"d", "D"} -> 13
           [] c \in {"e", "E"} -> 14 [] OTHER -> 15

RECURSIVE ParseInt(_, _)
\* int(s, base) of a text of digits
ParseInt(s, base) ==
    IF s = <<>> THEN 0
    ELSE ParseInt(SubSeq(s, 1, Len(s) - 1), base) * base + HexVal(s[Len(s)])

\* how many characters of r, from position i on, lie in S (greedy)
RunIn(r, i, S) ==
    CHOOSE n \in 0..(Len(r) + 1 - i) :
        /\ \A j \in 0..(n - 1) : r[i + j] \in S
        /\ (i + n > Len(r) \/ r[i + n] \notin S)

\* how many characters of r, from position i on, lie outside S, at most cap
RunOut(r, i, S, cap) ==
    CHOOSE n \in 0..cap :
        /\ n <= Len(r) + 1 - i
        /\ \A j \in 0..(n - 1) : r[i + j] \notin S
        /\ (n = cap \/ i + n > Len(r) \/ r[i + n] \in S)

\* 1 when r has a semicolon at position i
Semi(r, i) == IF i <= Len(r) /\ r[i] = ";" THEN 1 ELSE 0

\* The length of the character reference at the start of r, the text after
\* an ampersand, 0 when there is none:
\*   #[0-9]+;? | #[xX][0-9a-fA-F]+;? | [^\t\n\f <&#;]{1,32};?
charref_len(r) ==
    LET dec == RunIn(r, 2, DecDigits)
        hex == RunIn(r, 3, HexDigits)
        nam == RunOut(r, 1, NameStop, 32)
    IN  IF r # <<>> /\ r[1] = "#" /\ dec > 0 THEN 1 + dec + Semi(r, 2 + dec)
        ELSE IF Len(r) >= 2 /\ r[1] = "#" /\ r[2] \in {"x", "X"} /\ hex > 0
             THEN 2 + hex + Semi(r, 3 + hex)
        ELSE IF nam > 0 THEN nam + Semi(r, 1 + nam)
        ELSE 0

\* html.entities.html5, its entries over the letters a, g, l, m, o, p, q, s,
\* t, u: the names the texts of this model can spell
Html5Names ==
    { <<"a","m","p">>, <<"a","m","p",";">>, <<"l","t">>, <<"l","t",";">>,
      <<"g","t">>, <<"g","t",";">>, <<"q","u","o","t">>, <<"q","u","o","t",";">>,
      <<"a","p","o","s",";">>, <<"a","p",";">>, <<"m","p",";">>, <<"p","m",";">>,
      <<"g","g",";">>, <<"l","l",";">>, <<"g","l",";">>, <<"l","g",";">>,
      <<"m","a","p",";">>, <<"g","a","p",";">>, <<"l","a","p",";">>,
      <<"l","a","t",";">>, <<"g","l","a",";">>, <<"g","g","g",";">>,
      <<"t","o","p",";">>, <<"m","a","l","t",";">>, <<"a","m","a","l","g",";">>,
      <<"g","a","m","m","a",";">> }

\* html5[name]
Html5(name) ==
    LET base == IF name[Len(name)] = ";" THEN SubSeq(name, 1, Len(name) - 1) ELSE name
    IN  IF base = <<"a", "m", "p">> THEN <<"&">>
        ELSE IF base = <<"l", "t">> THEN <<"<">>
        ELSE IF base = <<"g", "t">> THEN <<">">>
        ELSE IF base = <<"q", "u", "o", "t">> THEN <<"\"">>
        ELSE IF base = <<"a", "p", "o", "s">> THEN <<"'">>
        ELSE <<NonAscii>>

\* a slip: a reference with an unknown name dropped
replace_charref_drop_unknown(s) ==
    IF s[1] = "#"
    THEN LET hexa == s[2] \in {"x", "X"}
             body == SubSeq(s, IF hexa THEN 3 ELSE 2, Len(s) - Semi(s, Len(s)))
             num  == ParseInt(body, IF hexa THEN 16 ELSE 10)
         IN  CASE num = 0 -> <<NonAscii>>
               [] num = 13 -> <<"\r">>
               [] num \in 128..159 -> <<NonAscii>>
               [] num \in 1..8 \cup 14..31 \cup {11, 127} -> <<>>
               [] num \in 32..126 -> <<Ascii[num - 31]>>
               [] num = 9 -> <<"\t">>
               [] num = 10 -> <<"\n">>
               [] num = 12 -> <<"\f">>
               [] OTHER -> <<NonAscii>>
    ELSE IF s \in Html5Names THEN Html5(s)
    ELSE LET pre == {x \in 2..(Len(s) - 1) : SubSeq(s, 1, x) \in Html5Names}
         IN  IF pre = {} THEN <<>>
             ELSE LET x == CHOOSE y \in pre : \A z \in pre : z <= y
                  IN  Html5(SubSeq(s, 1, x)) \o SubSeq(s, x + 1, Len(s))

\* html._replace_charref: the text for the reference s (the ampersand not
\* included): a code point's character, an html5 entry, the longest html5
\* name that starts s, or the reference itself when none applies
replace_charref(s) ==
    IF s[1] = "#"
    THEN LET hexa == s[2] \in {"x", "X"}
             body == SubSeq(s, IF hexa THEN 3 ELSE 2, Len(s) - Semi(s, Len(s)))
             num  == ParseInt(body, IF hexa THEN 16 ELSE 10)
         IN  CASE num = 0 -> <<NonAscii>>
               [] num = 13 -> <<"\r">>
               [] num \in 128..159 -> <<NonAscii>>
               [] num \in 1..8 \cup 14..31 \cup {11, 127} -> <<>>
               [] num \in 32..126 -> <<Ascii[num - 31]>>
               [] num = 9 -> <<"\t">>
               [] num = 10 -> <<"\n">>
               [] num = 12 -> <<"\f">>
               [] OTHER -> <<NonAscii>>
    ELSE IF s \in Html5Names THEN Html5(s)
    ELSE LET pre == {x \in 2..(Len(s) - 1) : SubSeq(s, 1, x) \in Html5Names}
         IN  IF pre = {} THEN <<"&">> \o s
             ELSE LET x == CHOOSE y \in pre : \A z \in pre : z <= y
                  IN  Html5(SubSeq(s, 1, x)) \o SubSeq(s, x + 1, Len(s))

RECURSIVE html_unescape(_)
\* html.unescape: every character reference replaced, left to right, the
\* replacement text not scanned again
html_unescape(s) ==
    IF s = <<>> THEN <<>>
    ELSE IF Head(s) # "&" THEN <<Head(s)>> \o html_unescape(Tail(s))
    ELSE LET n == charref_len(Tail(s))
         IN  IF n = 0 THEN <<"&">> \o html_unescape(Tail(s))
             ELSE replace_charref(SubSeq(s, 2, n + 1))
                  \o html_unescape(SubSeq(s, n + 2, Len(s)))

\* a slip: the result tagged safe
Markup_unescape_tagged(m) == Mk(html_unescape(py_str(m).s))

\* a slip: the references decoded twice
Markup_unescape_twice(m) == Str(html_unescape(html_unescape(py_str(m).s)))

\* Markup.unescape: plain text, the content with its references decoded
Markup_unescape(m) == Str(html_unescape(py_str(m).s))

(***************************************************************************)
(* Markup.striptags: whitespace collapsed, comments removed, tags removed, *)
(* the rest unescaped.                                                     *)
(***************************************************************************)
\* the characters str.split() takes for whitespace, those a text of this
\* model can hold
Whitespace == {" ", "\t", "\n"}

RECURSIVE split_join(_)
\* " ".join(s.split()): the words of s, one space between them
split_join(s) ==
    IF s = <<>> THEN <<>>
    ELSE IF Head(s) \in Whitespace THEN split_join(Tail(s))
    ELSE LET n == RunOut(s, 1, Whitespace, Len(s))
             rest == split_join(SubSeq(s, n + 1, Len(s)))
         IN  SubSeq(s, 1, n) \o (IF rest = <<>> THEN <<>> ELSE <<" ">> \o rest)

\* value.find(sub, start), positions counted from 1: the first position
\* from start on where sub stands, 0 (Python's -1) when there is none
str_find(value, sub, start) ==
    LET hits == {i \in start..Len(value) : MatchAt(value, sub, i)}
    IN  IF hits = {} THEN 0 ELSE CHOOSE i \in hits : \A j \in hits : i <= j

comment_open  == <<"<", "!", "-", "-">>
comment_close == <<"-", "-", ">">>
tag_open  == <<"<">>
tag_close == <<">">>

\* a slip: the end mark left in the text
strip_step_keep_end(value, open, close) ==
    LET start == str_find(value, open, 1)
        end == IF start = 0 THEN 0 ELSE str_find(value, close, start)
    IN  IF end = 0 THEN NoneV
        ELSE Str(SubSeq(value, 1, start - 1) \o SubSeq(value, end, Len(value)))

\* a slip: a comment taken to end where a tag ends
strip_step_tag_end(value, open, close) ==
    LET start == str_find(value, open, 1)
        end == IF start = 0 THEN 0 ELSE str_find(value, tag_close, start)
    IN  IF end = 0 THEN NoneV
        ELSE Str(SubSeq(value, 1, start - 1) \o SubSeq(value, end + 1, Len(value)))

\* One turn of a removal loop of striptags: the text without its first
\* open mark and everything up to the first close mark from there on, or
\* NoneV when the loop ends, no open mark found or no close mark after it.
strip_step(value, open, close) ==
    LET start == str_find(value, open, 1)
        end == IF start = 0 THEN 0 ELSE str_find(value, close, start)
    IN  IF end = 0 THEN NoneV
        ELSE Str(SubSeq(value, 1, start - 1)
                 \o SubSeq(value, end + Len(close), Len(value)))

RECURSIVE strip_loop(_, _, _)
\* the end of a turn: the loop goes on with the shorter text, or is over
strip_next(value, open, close, stepped) ==
    IF stepped.k = "none" THEN value ELSE strip_loop(stepped.s, open, close)

\* a removal loop of striptags, run to its end
strip_loop(value, open, close) ==
    strip_next(value, open, close, strip_step(value, open, close))

\* Markup.striptags
Markup_striptags(m) ==
    Markup_unescape(Markup_new(Str(
        strip_loop(strip_loop(split_join(m.s), comment_open, comment_close),
                   tag_open, tag_close))))

(***************************************************************************)
(* Concatenation, repetition, join, partition.                             *)
(***************************************************************************)
\* a slip: the operand appended as it is
Markup_add_raw(m, value) ==
    IF IsText(value) \/ has_html(value)
    THEN Markup_new(Str(m.s \o py_str(value).s))
    ELSE NotImplementedV

\* Markup.__add__: the operand escaped, then appended
Markup_add(m, value) ==
    IF IsText(value) \/ has_html(value)
    THEN Bind(Markup_escape(value), LAMBDA e : Markup_new(Str(m.s \o e.s)))
    ELSE NotImplementedV

\* Markup.__radd__: the operand escaped, then self appended to it
Markup_radd(m, value) ==
    IF IsText(value) \/ has_html(value)
    THEN Bind(Markup_escape(value), LAMBDA e : Markup_add(e, m))
    ELSE NotImplementedV

RECURSIVE str_mul(_, _)
\* str.__mul__: n copies, none for n <= 0
str_mul(s, n) == IF n <= 0 THEN <<>> ELSE s \o str_mul(s, n - 1)

\* Markup.__mul__ and __rmul__
Markup_mul(m, n) == Markup_new(Str(str_mul(m.s, n)))

RECURSIVE str_join(_, _)
\* str.join over a sequence of texts
str_join(sep, ss) ==
    IF ss = <<>> THEN <<>>
    ELSE IF Len(ss) = 1 THEN ss[1]
    ELSE ss[1] \o sep \o str_join(sep, Tail(ss))

\* Markup.join: each element escaped, in order; the first failure ends it
Markup_join(m, items) ==
    LET es == [i \in 1..Len(items) |-> Markup_escape(items[i])]
        bad == {i \in 1..Len(items) : IsRaise(es[i])}
    IN  IF bad # {} THEN es[CHOOSE i \in bad : \A j \in bad : i <= j]
        ELSE Markup_new(Str(str_join(m.s, [i \in 1..Len(items) |-> es[i].s])))

\* a 3-tuple of plain texts
Parts(l, x, r) == [k |-> "parts", p |-> <<l, x, r>>]

\* the positions where sep occurs in s
Occurrences(s, sep) == {i \in 1..(Len(s) + 1) : MatchAt(s, sep, i)}

\* str.partition: around the first occurrence of sep
str_partition(s, sep) ==
    IF sep = <<>> THEN Raise("ValueError")
    ELSE LET at == Occurrences(s, sep)
         IN  IF at = {} THEN Parts(s, <<>>, <<>>)
             ELSE LET i == CHOOSE x \in at : \A y \in at : x <= y
                  IN  Parts(SubSeq(s, 1, i - 1), sep, SubSeq(s, i + Len(sep), Len(s)))

\* str.rpartition: around the last occurrence of sep
str_rpartition(s, sep) ==
    IF sep = <<>> THEN Raise("ValueError")
    ELSE LET at == Occurrences(s, sep)
         IN  IF at = {} THEN Parts(<<>>, <<>>, s)
             ELSE LET i == CHOOSE x \in at : \A y \in at : y <= x
                  IN  Parts(SubSeq(s, 1, i - 1), sep, SubSeq(s, i + Len(sep), Len(s)))

\* the three parts, each wrapped by the class
WrapParts(parts) ==
    IF IsRaise(parts) THEN parts
    ELSE TupleV([i \in 1..3 |-> Markup_new(Str(parts.p[i]))])

\* Markup.partition: str.partition on the separator as given
Markup_partition(m, sep) ==
    IF ~IsText(sep) THEN Raise("TypeError")
    ELSE WrapParts(str_partition(m.s, sep.s))

\* Markup.rpartition: str.rpartition on the separator as given
Markup_rpartition(m, sep) ==
    IF ~IsText(sep) THEN Raise("TypeError")
    ELSE WrapParts(str_rpartition(m.s, sep.s))

(***************************************************************************)
(* %-interpolation: _MarkupEscapeHelper and str.__mod__.                   *)
(***************************************************************************)
\* _MarkupEscapeHelper(obj, escape)
Helper(obj) == [k |-> "helper", obj |-> obj]

\* int(v)
py_int(v) ==
    CASE v.k = "int"   -> v
      [] v.k = "float" -> IntV(v.w)
      [] IsText(v)     ->
           IF v.s # <<>> /\ \A i \in 1..Len(v.s) : v.s[i] \in DecDigits
           THEN IntV(ParseInt(v.s, 10)) ELSE Raise("ValueError")
      [] OTHER         -> Raise("TypeError")

\* float(v)
py_float(v) ==
    CASE v.k = "int"   -> FloatV(v.n, 0)
      [] v.k = "float" -> v
      [] IsText(v)     ->
           IF v.s # <<>> /\ \A i \in 1..Len(v.s) : v.s[i] \in DecDigits
           THEN FloatV(ParseInt(v.s, 10), 0) ELSE Raise("ValueError")
      [] OTHER         -> Raise("TypeError")

\* v[key] for a text key: the mapping {"k": val} knows the key k
py_getitem(v, key) ==
    IF v.k = "dict"
    THEN IF key = <<"k">> THEN v.val ELSE Raise("KeyError")
    ELSE Raise("TypeError")

\* hasattr(type(v), "__getitem__")
has_getitem(v) == v.k \in {"dict", "tuple", "str", "Markup"}

\* a slip: the helper's text taken without escaping
MarkupEscapeHelper_str_raw(h) == py_str(h.obj)

\* _MarkupEscapeHelper.__str__: the escaped text of the wrapped value
MarkupEscapeHelper_str(h) ==
    Bind(Markup_escape(h.obj), LAMBDA e : py_str(e))

\* _MarkupEscapeHelper.__repr__: the escaped repr of the wrapped value
MarkupEscapeHelper_repr(h) ==
    Bind(Markup_escape(Str(py_repr(h.obj))), LAMBDA e : py_str(e))

\* a slip: the number read from the escaped text
MarkupEscapeHelper_int_escaped(h) ==
    Bind(Markup_escape(h.obj), LAMBDA e : py_int(e))

\* _MarkupEscapeHelper.__int__: int() of the wrapped value
MarkupEscapeHelper_int(h) == py_int(h.obj)

\* _MarkupEscapeHelper.__float__: float() of the wrapped value
MarkupEscapeHelper_float(h) == py_float(h.obj)

\* _MarkupEscapeHelper.__getitem__: the looked-up value, wrapped in turn
MarkupEscapeHelper_getitem(h, key) ==
    Bind(py_getitem(h.obj, key), LAMBDA v : Helper(v))

\* the text of one conversion of the helper h: s, r, d, i or f
mod_convert(c, h) ==
    CASE c = "s" -> MarkupEscapeHelper_str(h)
      [] c = "r" -> MarkupEscapeHelper_repr(h)
      [] c \in {"d", "i"} ->
           Bind(MarkupEscapeHelper_int(h), LAMBDA n : Str(IntText(n.n)))
      [] c = "f" ->
           Bind(MarkupEscapeHelper_float(h),
                LAMBDA x : Str(IntText(x.w) \o <<".">> \o IntText(x.f)
                               \o <<"0", "0", "0", "0", "0">>))
      [] OTHER -> Raise("ValueError")

\* The state of str.__mod__ on its way through the format: i the position,
\* args the tuple of arguments or the single argument, arglen its length (-1
\* for a single argument), argidx the next one (-2: the single argument is
\* unused), dict the mapping or NoneV, out the text so far, err the
\* exception raised or NoneV.
ModState(i, args, arglen, argidx, dict, out, err) ==
    [i |-> i, args |-> args, arglen |-> arglen, argidx |-> argidx,
     dict |-> dict, out |-> out, err |-> err]

\* one conversion of str.__mod__, the % at position st.i of the format t:
\* an optional (key), looked up in the mapping, then %, s, r, d, i or f; the
\* argument is fetched before the conversion character is looked at
mod_directive(t, st) ==
    LET i == st.i
        keyed == i < Len(t) /\ t[i + 1] = "("
        close == {j \in (i + 2)..Len(t) : t[j] = ")"}
        j == IF close = {} THEN 0 ELSE CHOOSE x \in close : \A y \in close : x <= y
        c == IF keyed THEN j + 1 ELSE i + 1
        literal == c <= Len(t) /\ t[c] = "%"
        \* the argument the conversion is for, or the exception on the way
        v == IF i = Len(t) THEN Raise("ValueError")
             ELSE IF keyed /\ st.dict.k = "none" THEN Raise("TypeError")
             ELSE IF keyed /\ j = 0 THEN Raise("ValueError")
             ELSE IF keyed
             THEN Bind(MarkupEscapeHelper_getitem(st.dict, SubSeq(t, i + 2, j - 1)),
                       LAMBDA h : IF c > Len(t) THEN Raise("ValueError") ELSE h)
             ELSE IF literal THEN NoneV
             ELSE IF ~(st.argidx < st.arglen) THEN Raise("TypeError")
             ELSE IF st.arglen < 0 THEN st.args ELSE st.args.items[st.argidx + 1]
        after(text) ==
            IF keyed
            THEN [st EXCEPT !.i = c + 1, !.args = v, !.arglen = -1,
                            !.argidx = IF literal THEN -2 ELSE -1, !.out = @ \o text]
            ELSE [st EXCEPT !.i = c + 1, !.argidx = IF literal THEN @ ELSE @ + 1,
                            !.out = @ \o text]
    IN  Either(Bind(v, LAMBDA h : IF literal THEN Str(<<"%">>)
                                  ELSE mod_convert(t[c], h)),
               LAMBDA r : after(r.s),
               LAMBDA e : [st EXCEPT !.err = e])

\* one step of str.__mod__ at position st.i of the format t: a character
\* copied, or a conversion done
mod_step(t, st) ==
    IF t[st.i] # "%" THEN [st EXCEPT !.i = @ + 1, !.out = @ \o <<t[st.i]>>]
    ELSE mod_directive(t, st)

RECURSIVE mod_scan(_, _)
\* str.__mod__'s loop over the format, to its end or to the first exception
mod_scan(t, st) ==
    IF st.err.k # "none" \/ st.i > Len(t) THEN st ELSE mod_scan(t, mod_step(t, st))

\* the end of str.__mod__: the exception, or the text; arguments left over
\* are an error unless a mapping was given
mod_result(st) ==
    IF st.err.k # "none" THEN st.err
    ELSE IF st.argidx < st.arglen /\ st.dict.k = "none" THEN Raise("TypeError")
    ELSE Str(st.out)

\* str.__mod__(t, value): value a tuple of helpers, or one helper that is
\* also offered as the mapping
str_mod(t, value) ==
    mod_result(mod_scan(t, IF value.k = "tuple"
                           THEN ModState(1, value, Len(value.items), 0, NoneV, <<>>, NoneV)
                           ELSE ModState(1, value, -1, -2, value, <<>>, NoneV)))

\* Markup.__mod__: a tuple's elements wrapped, a non-text value with
\* __getitem__ wrapped as a mapping, anything else wrapped in a 1-tuple
Markup_mod(m, value) ==
    LET wrapped ==
          IF value.k = "tuple"
          THEN TupleV([i \in 1..Len(value.items) |-> Helper(value.items[i])])
          ELSE IF has_getitem(value) /\ ~IsText(value) THEN Helper(value)
          ELSE TupleV(<<Helper(value)>>)
    IN  Bind(str_mod(m.s, wrapped), LAMBDA r : Markup_new(r))

(***************************************************************************)
(* format and format_map: EscapeFormatter over string.Formatter.vformat.   *)
(***************************************************************************)
\* Markup.__html_format__: itself for the empty specification, ValueError
\* for any other
Markup_html_format(m, format_spec) ==
    IF format_spec # <<>> THEN Raise("ValueError") ELSE m

\* v.__html_format__(format_spec) for a value that has the method
call_html_format(v, format_spec) ==
    IF v.k = "Markup" THEN Markup_html_format(v, format_spec) ELSE Mk(v.fbody)

\* format(v, format_spec) of a value with neither capability: the empty
\* specification gives str(v); "s" suits text and "d" integers
py_format(v, format_spec) ==
    IF format_spec = <<>> THEN py_str(v)
    ELSE CASE IsText(v) ->
                IF format_spec = <<"s">> THEN py_str(v) ELSE Raise("ValueError")
           [] v.k = "int" ->
                IF format_spec = <<"d">> THEN py_str(v) ELSE Raise("ValueError")
           [] v.k = "float" -> Raise("ValueError")
           [] OTHER -> Raise("TypeError")

\* a slip: a specification the value cannot honour dropped without a word
format_field_spec_ignored(value, format_spec) ==
    LET rv == IF has_html_format(value) THEN call_html_format(value, format_spec)
              ELSE IF has_html(value) THEN call_html(value)
              ELSE py_format(value, format_spec)
        e == IF IsRaise(rv) THEN rv ELSE Markup_escape(rv)
    IN  IF IsRaise(e) THEN e ELSE py_str(e)

\* EscapeFormatter.format_field: __html_format__ first, then __html__ (which
\* takes no specification), then format(); the text so rendered goes
\* through escape
format_field(value, format_spec) ==
    Bind(IF has_html_format(value) THEN call_html_format(value, format_spec)
         ELSE IF has_html(value)
         THEN IF format_spec # <<>> THEN Raise("ValueError") ELSE call_html(value)
         ELSE py_format(value, format_spec),
         LAMBDA rv : Bind(Markup_escape(rv), LAMBDA e : py_str(e)))

\* Formatter.get_value: a number indexes args, a name looks into kwargs
get_value(name, args, kwargs) ==
    IF \A i \in 1..Len(name) : name[i] \in DecDigits
    THEN LET n == ParseInt(name, 10)
         IN  IF n < Len(args) THEN args[n + 1] ELSE Raise("IndexError")
    ELSE IF kwargs.k = "none" THEN Raise("KeyError")
    ELSE py_getitem(kwargs, name)

\* one step of Formatter._vformat at position st.i of the format t: {{ and
\* }} are the braces, {name} and {name:spec} are fields, an empty name takes
\* the next positional argument.  st.auto is the next automatic index, -1
\* once a field was numbered by hand.
vformat_step(t, args, kwargs, st) ==
    LET i == st.i
        fail(e) == [st EXCEPT !.err = e]
        close == {j \in (i + 1)..Len(t) : t[j] = "}"}
        j == IF close = {} THEN 0 ELSE CHOOSE x \in close : \A y \in close : x <= y
        field == SubSeq(t, i + 1, j - 1)
        colon == {c \in 1..Len(field) : field[c] = ":"}
        c0 == IF colon = {} THEN Len(field) + 1
              ELSE CHOOSE x \in colon : \A y \in colon : x <= y
        name == SubSeq(field, 1, c0 - 1)
        spec == SubSeq(field, c0 + 1, Len(field))
        manual == name # <<>> /\ \A d \in 1..Len(name) : name[d] \in DecDigits
        key == IF name = <<>> THEN IntText(st.auto) ELSE name
        obj == get_value(key, args, kwargs)
        nxt == IF name = <<>> THEN st.auto + 1 ELSE IF manual THEN -1 ELSE st.auto
    IN  IF t[i] = "}"
        THEN IF i < Len(t) /\ t[i + 1] = "}"
             THEN [st EXCEPT !.i = i + 2, !.out = @ \o <<"}">>]
             ELSE fail(Raise("ValueError"))
        ELSE IF t[i] # "{" THEN [st EXCEPT !.i = i + 1, !.out = @ \o <<t[i]>>]
        ELSE IF i < Len(t) /\ t[i + 1] = "{"
        THEN [st EXCEPT !.i = i + 2, !.out = @ \o <<"{">>]
        ELSE IF j = 0 THEN fail(Raise("ValueError"))
        ELSE IF name = <<>> /\ st.auto = -1 THEN fail(Raise("ValueError"))
        ELSE IF manual /\ st.auto > 0 THEN fail(Raise("ValueError"))
        ELSE Either(Bind(obj, LAMBDA o : format_field(o, spec)),
                    LAMBDA f : [st EXCEPT !.i = j + 1, !.auto = nxt, !.out = @ \o f.s],
                    fail)

RECURSIVE vformat_scan(_, _, _, _)
\* Formatter._vformat's loop over the format, to its end or to the first
\* exception
vformat_scan(t, args, kwargs, st) ==
    IF st.err.k # "none" \/ st.i > Len(t) THEN st
    ELSE vformat_scan(t, args, kwargs, vformat_step(t, args, kwargs, st))

\* the end of Formatter.vformat: the exception, or the text
vformat_result(st) == IF st.err.k # "none" THEN st.err ELSE Str(st.out)

\* Formatter.vformat
vformat(t, args, kwargs) ==
    vformat_result(vformat_scan(t, args, kwargs,
                                [i |-> 1, auto |-> 0, out |-> <<>>, err |-> NoneV]))

\* Markup.format: the fields rendered by an EscapeFormatter, the result
\* wrapped by the class
Markup_format(m, args, kwargs) ==
    Bind(vformat(m.s, args, kwargs), LAMBDA r : Markup_new(r))

\* Markup.format_map: the same, the fields looked up in the mapping
Markup_format_map(m, mapping) ==
    Bind(vformat(m.s, <<>>, mapping), LAMBDA r : Markup_new(r))

(***************************************************************************)
(* The values the operations are tried on.                                 *)
(***************************************************************************)
EscAlphabet == {"&", "<", ">", "'", "\"", "l", "t", ";"}
EscTexts == TextsUpTo(EscAlphabet, MaxEscLen)

Alphabet == {"&", "<", "'", "a"}
PlainTexts == TextsUpTo(Alphabet, MaxLen) \cup {<<"1", "2">>, <<"\"", ">">>}

\* __html__ returns the plain text <b>
ObjHtmlStr == Obj("str", <<"<", "b", ">">>, FALSE, <<>>, <<"b">>)
\* __html__ returns Markup("<i>")
ObjHtmlMarkup == Obj("Markup", <<"<", "i", ">">>, FALSE, <<>>, <<"i">>)
\* __html__ raises
ObjRaises == Obj("raise", <<>>, FALSE, <<>>, <<"e">>)
\* __html_format__ returns Markup("<f>"), __html__ returns Markup("<u>")
ObjFormat == Obj("Markup", <<"<", "u", ">">>, TRUE, <<"<", "f", ">">>, <<"u">>)
\* no capability, str() is <o>
ObjPlain == Obj("none", <<>>, FALSE, <<>>, <<"<", "o", ">">>)
Objects == {ObjHtmlStr, ObjHtmlMarkup, ObjRaises, ObjFormat, ObjPlain}

SafeOperands ==
    {Mk(<<>>), Mk(<<"<", "b", ">">>), Mk(<<"&", "a", "m", "p", ";">>), Mk(<<"'">>)}
Numbers == {IntV(12), FloatV(3, 7)}
Atoms == {Str(t) : t \in PlainTexts} \cup SafeOperands \cup Objects \cup Numbers \cup {NoneV}

Items == {Str(<<"<">>), Str(<<"a", "'">>), Mk(<<"<", "b", ">">>), IntV(12), FloatV(3, 7),
          ObjHtmlStr, ObjRaises}
Tuples == {TupleV(<<>>)} \cup {TupleV(<<a>>) : a \in Items}
          \cup {TupleV(<<a, b>>) : a \in Items, b \in Items}
Dicts == {DictV(a) : a \in Items}

\* the literals a program wraps as safe: markup and templates
Literals ==
    { <<>>, <<"<", "b", ">">>, <<"a", "&", "l", "t", ";", "b">>,
      <<"a", "<", "b", "<", "c">>, <<"a", "'", "b">>,
      <<"%", "s">>, <<"<", "%", "s", ">">>, <<"%", "d">>, <<"%", "i">>,
      <<"%", "f">>, <<"%", "r">>, <<"%", "s", "%", "d">>, <<"%", "%">>,
      <<"%", "(", "k", ")", "s">>, <<"%", "(", "k", ")", "d">>,
      <<"{", "}">>, <<"<", "{", "}", ">">>, <<"{", ":", "s", "}">>,
      <<"{", "k", "}">>, <<"{", "k", ":", "s", "}">>, <<"{", "0", "}">>,
      <<"{", "{", "}", "}">> }

Specs == {<<>>, <<"s">>}

\* plain text from outside: the characters that must not reach markup
TaintAlphabet == {"<", ">", "'", "\""}
TaintTexts == {Str(t) : t \in TextsUpTo(TaintAlphabet, MaxTaintLen)}
TaintChars == {Str(<<c>>) : c \in TaintAlphabet}
TaintTuples == {TupleV(<<a>>) : a \in TaintChars}
               \cup {TupleV(<<a, b>>) : a \in TaintChars, b \in TaintChars}
TaintDicts == {DictV(a) : a \in TaintChars}
\* plain text that escape turns into a template, or into escaped markup
TaintSeeds ==
    { <<"<">>, <<"a">>, <<"%", "s">>, <<"%", "r">>, <<"%", "(", "k", ")", "s">>,
      <<"{", "}">>, <<"{", "k", "}">> }

\* the pieces the texts given to striptags are put together from
StripPieces ==
    { comment_open, comment_close, tag_open, tag_close, <<"a">>, <<" ">>,
      <<"&", "l", "t", ";">>, <<"<", "b", ">">> }
\* text, space, tag, space, text; a comment with a > in it between texts;
\* whitespace of every kind
StripLiterals ==
    { <<"a", " ", "<", "b", ">", " ", "a">>,
      <<"a", " ", "<", "!", "-", "-", " ", ">", " ", "-", "-", ">", " ", "a">>,
      <<"\t", "a", "\n", "\t", "a", " ">> }
StripTexts == {Concat(ps) : ps \in TextsUpTo(StripPieces, MaxPieces)} \cup StripLiterals

\* texts of character references, well-formed and not
RefAlphabet == {"&", "#", "x", "3", "9", "l", "t", ";"}
RefLiterals ==
    { <<"&", "f", "o", "o", "&", "#", "x", "3", "b", ";">>,
      <<"&", "#", "x", "3", "c", ";">>, <<"&", "#", "3", "9", ";">>,
      <<"&", "#", "x", "0", "3", ";">>, <<"&", "l", "t", ";", "&", "#", "3", "3", ";">> }
RefTexts == TextsUpTo(RefAlphabet, MaxRefLen) \cup RefLiterals

(***************************************************************************)
(* The program: it makes a safe string and applies operations to it.       *)
(***************************************************************************)
Init ==
    /\ self = Markup_new(Str(<<>>))
    /\ made = "init"
    /\ op = "init"
    /\ arg = NoneV
    /\ res = NoneV

\* the operations that make the program's safe string
MakeOps == {"init", "Markup", "escape", "Markup.escape", "rebind"}

\* the operations that combine the safe string with other content
ChainOps == {"add", "radd", "mul", "join", "mod", "format", "format_kw", "format_map"}

\* an operation of self, applied once the safe string is made; it leaves
\* self as it is: a str is immutable
Apply(name, operand, result) ==
    /\ op \in MakeOps
    /\ op' = name
    /\ arg' = operand
    /\ res' = result
    /\ UNCHANGED <<self, made>>

\* an operation whose result, unless it raised, becomes the safe string:
\* applied to a value from outside at the start, or to the safe string made
Make(name, how, operand, result) ==
    /\ IF operand = self THEN op \in MakeOps \ {"init"} ELSE op = "init"
    /\ op' = name
    /\ arg' = operand
    /\ res' = result
    /\ IF IsRaise(result)
       THEN UNCHANGED <<self, made>>
       ELSE self' = result /\ made' = how

\* m = Markup(v)
Construct(v) == Make("Markup", "Markup", v, Markup_new(v))
\* m = escape(v)
Escape(v) == Make("escape", "escape", v, escape(v))
\* m = Markup.escape(v)
MarkupEscape(v) == Make("Markup.escape", "escape", v, Markup_escape(v))
\* m + v
Add(v) == Apply("add", v, Markup_add(self, v))
\* v + m
Radd(v) == Apply("radd", v, Markup_radd(self, v))
\* m * n
Mul(n) == Apply("mul", IntV(n), Markup_mul(self, n))
\* m.join(items)
Join(t) == Apply("join", t, Markup_join(self, t.items))
\* m % v
Mod(v) == Apply("mod", v, Markup_mod(self, v))
\* m.partition(v)
Partition(v) == Apply("partition", v, Markup_partition(self, v))
\* m.rpartition(v)
Rpartition(v) == Apply("rpartition", v, Markup_rpartition(self, v))
\* m.format(v)
Format(v) == Apply("format", v, Markup_format(self, <<v>>, NoneV))
\* m.format(k=v)
FormatKw(v) == Apply("format_kw", v, Markup_format(self, <<>>, DictV(v)))
\* m.format_map({"k": v})
FormatMap(v) == Apply("format_map", v, Markup_format_map(self, DictV(v)))
\* m.__html_format__(spec)
HtmlFormat(spec) == Apply("html_format", Str(spec), Markup_html_format(self, spec))
\* m.unescape()
Unescape == Apply("unescape", arg, Markup_unescape(self))
\* escape_inner(v)
EscapeInner(v) == op = "init" /\ Apply("escape_inner", v, Str(escape_inner(v.s)))
\* m.striptags()
Striptags == Apply("striptags", arg, Markup_striptags(self))
\* m + m.unescape()
AddUnescaped == Apply("add_unescaped", Markup_unescape(self), Markup_add(self, Markup_unescape(self)))

\* m.striptags() step by step.  op is the place in the method, res the
\* working text value, arg the text before the last change.
\* value = " ".join(self.split())
StripStart ==
    /\ op = "Markup"
    /\ op' = "striptags.comments"
    /\ arg' = NoneV
    /\ res' = Str(split_join(self.s))
    /\ UNCHANGED <<self, made>>

\* one turn of a removal loop at the place pc: the text shortened, or the
\* loop left for the place after
StripTurn(pc, open, close, after, stepped) ==
    /\ op = pc
    /\ IF stepped.k = "none"
       THEN op' = after /\ arg' = NoneV /\ UNCHANGED res
       ELSE op' = pc /\ arg' = res /\ res' = stepped
    /\ UNCHANGED <<self, made>>

\* while (start := value.find("<!--")) != -1: ...
StripComments ==
    StripTurn("striptags.comments", comment_open, comment_close, "striptags.tags",
              strip_step(res.s, comment_open, comment_close))

\* while (start := value.find("<")) != -1: ...
StripTags ==
    StripTurn("striptags.tags", tag_open, tag_close, "striptags.decode",
              strip_step(res.s, tag_open, tag_close))

\* return self.__class__(value).unescape()
StripReturn ==
    /\ op = "striptags.decode"
    /\ op' = "striptags.done"
    /\ arg' = res
    /\ res' = Markup_unescape(Markup_new(res))
    /\ UNCHANGED <<self, made>>

\* m = Markup(m.unescape()), after the unescape
Rewrap ==
    /\ op = "unescape"
    /\ op' = "Markup"
    /\ arg' = res
    /\ self' = Markup_new(res)
    /\ made' = "unescape"
    /\ res' = Markup_new(res)

\* m = Markup(escape_inner(v))
WrapEscaped(v) == Make("Markup", "escape_inner", v, Markup_new(Str(escape_inner(v.s))))
\* m = the result of the last operation, when it is a safe string
Rebind ==
    /\ op \in ChainOps
    /\ res.k = "Markup"
    /\ Len(res.s) <= MaxContent
    /\ self' = res
    /\ made' = "rebind"
    /\ op' = "rebind"
    /\ UNCHANGED <<arg, res>>

Next ==
    \/ \E t \in Literals : Construct(Str(t))
    \/ \E v \in Objects : Construct(v)
    \/ \E v \in Atoms \cup {self} : Escape(v)
    \/ \E v \in Objects \cup SafeOperands \cup {self} : MarkupEscape(v)
    \/ \E v \in Atoms : Add(v)
    \/ \E v \in Atoms : Radd(v)
    \/ \E n \in 0..MaxRepeat : Mul(n)
    \/ \E t \in Tuples : Join(t)
    \/ \E v \in Atoms \cup Tuples \cup Dicts : Mod(v)
    \/ \E v \in Atoms : Partition(v)
    \/ \E v \in Atoms : Rpartition(v)
    \/ \E v \in Atoms : Format(v)
    \/ \E v \in Atoms : FormatKw(v)
    \/ \E v \in Atoms : FormatMap(v)
    \/ \E spec \in Specs : HtmlFormat(spec)
    \/ Unescape
    \/ Striptags
    \/ AddUnescaped

Spec == Init /\ [][Next]_vars

\* the Escape Primitive and its inverse on every short text
NextEscape ==
    \/ op = "init" /\ \E t \in EscTexts : EscapeInner(Str(t))
    \/ op = "init" /\ \E t \in EscTexts : WrapEscaped(Str(t))
    \/ Unescape

SpecEscape == Init /\ [][NextEscape]_vars

\* chains of combining operations, from escaped text, with plain operands
NextTaint ==
    \/ \E t \in TaintSeeds : Escape(Str(t))
    \/ \E v \in TaintTexts : Add(v)
    \/ \E v \in TaintTexts : Radd(v)
    \/ \E n \in 0..MaxRepeat : Mul(n)
    \/ \E t \in TaintTuples : Join(t)
    \/ \E v \in TaintTexts \cup TaintTuples \cup TaintDicts : Mod(v)
    \/ \E v \in TaintTexts : Format(v)
    \/ \E v \in TaintTexts : FormatKw(v)
    \/ \E v \in TaintTexts : FormatMap(v)
    \/ Rebind

SpecTaint == Init /\ [][NextTaint]_vars

\* unescape, and unescape again, on texts of references
NextRefs ==
    \/ op = "init" /\ \E t \in RefTexts : Construct(Str(t))
    \/ Unescape
    \/ Rewrap

SpecRefs == Init /\ [][NextRefs]_vars

\* striptags, one step at a time, on markup put together from pieces
NextStrip ==
    \/ op = "init" /\ \E t \in StripTexts : Construct(Str(t))
    \/ StripStart
    \/ StripComments
    \/ StripTags
    \/ StripReturn

SpecStrip == Init /\ [][NextStrip]_vars

\* the method runs on: a loop that can take its next step takes it
SpecStripFair == SpecStrip /\ WF_vars(StripComments) /\ WF_vars(StripTags)

(***************************************************************************)
(* The properties.                                                         *)
(***************************************************************************)
\* the escaped form of one character: the entity of a reserved character,
\* the character itself otherwise
Entity(c) ==
    CASE c = "&"  -> <<"&", "a", "m", "p", ";">>
      [] c = "<"  -> <<"&", "l", "t", ";">>
      [] c = ">"  -> <<"&", "g", "t", ";">>
      [] c = "'"  -> <<"&", "#", "3", "9", ";">>
      [] c = "\"" -> <<"&", "#", "3", "4", ";">>
      [] OTHER    -> <<c>>

\* one scan of t from left to right, each character replaced by its
\* escaped form
ScanEscape(t) == Concat([i \in 1..Len(t) |-> Entity(t[i])])

Reserved == {"&", "<", ">", "'", "\""}

\* a text is plain when it is a str that is not a safe string
IsPlain(v) == v.k = "str"
IsSafe(v) == v.k = "Markup"

\* C1: escape_inner(t), five whole-string replacements with & first, is
\* for every text t the result of one left-to-right scan that replaces each
\* reserved character by its entity and copies the others: an & that a
\* replacement introduced is not escaped again, and a text without reserved
\* characters comes back as it is.
C1_EscapeInnerIsOneScan ==
    op = "escape_inner" =>
        /\ res = Str(ScanEscape(arg.s))
        /\ (\A i \in 1..Len(arg.s) : arg.s[i] \notin Reserved) => res = arg

\* C1 happens: escape_inner was applied to a text with an &, a < and a
\* character that is not reserved
C1_Witness ==
    /\ op = "escape_inner"
    /\ arg = Str(<<"&", "<", "l">>)
    /\ res = Str(<<"&", "a", "m", "p", ";", "&", "l", "t", ";", "l">>)

\* no <, >, ' or " in the text
NoRaw(s) == \A i \in 1..Len(s) : s[i] \notin TaintAlphabet

\* C2: from safe strings that escape produced, every chain of +, *, join,
\* % and format/format_map with plain operands yields safe strings only,
\* and none of them holds a literal <, >, ' or ": what a plain operand
\* brought in was escaped first.
C2_TaintPropagation ==
    /\ IsSafe(self) /\ NoRaw(self.s)
    /\ (op \in ChainOps /\ ~IsRaise(res)) => (IsSafe(res) /\ NoRaw(res.s))

\* C2 happens: a value that is the second of a chain came from a
\* %-interpolation of a plain < or from a concatenation of a plain ', and
\* holds the escaped forms
C2_Witness ==
    /\ made = "rebind"
    /\ op \in {"add", "mod", "format"}
    /\ arg.k = "str" /\ arg.s # <<>>
    /\ IsSafe(res)
    /\ Len(res.s) > Len(self.s)
    /\ Has(self.s, "&")

\* C3: escape(m) and Markup.escape(m) of a safe string m give a safe string
\* with the content of m, not escaped again; so escape(escape(x)) has the
\* content of escape(x).
C3_EscapeOfSafeIsIdentity ==
    (op \in {"escape", "Markup.escape"} /\ IsSafe(arg)) =>
        (IsSafe(res) /\ res.s = arg.s)

\* C3 happens: escape was applied to the result of escape("<"), whose
\* content has an & that a second escaping would change
C3_Witness ==
    /\ op = "escape"
    /\ made = "escape"
    /\ arg = Mk(<<"&", "l", "t", ";">>)
    /\ res = arg

\* C4: unescape undoes the Escape Primitive: the safe string that holds
\* escape_inner(t) unescapes to the plain text t.  It holds for every t,
\* with or without entity-like parts of its own.
C4_UnescapeInvertsEscape ==
    (op = "unescape" /\ made = "escape_inner") => res = Str(arg.s)

\* C4 happens: the escaped form of a text with three reserved characters
\* was unescaped
C4_Witness ==
    /\ op = "unescape"
    /\ made = "escape_inner"
    /\ arg = Str(<<"<", "&", "\"">>)
    /\ self.s = ScanEscape(arg.s)
    /\ res = arg

\* C5: m + p is the safe string of m's content followed by the escaped p,
\* p + m the escaped p followed by m's content, for a plain text p; a safe
\* operand is joined on as it is.
C5_ConcatEscapesPlainOperand ==
    /\ (op = "add" /\ IsPlain(arg)) => res = Mk(self.s \o ScanEscape(arg.s))
    /\ (op = "radd" /\ IsPlain(arg)) => res = Mk(ScanEscape(arg.s) \o self.s)
    /\ (op = "add" /\ IsSafe(arg)) => res = Mk(self.s \o arg.s)
    /\ (op = "radd" /\ IsSafe(arg)) => res = Mk(arg.s \o self.s)

\* C5 happens: a plain text with reserved characters was put after markup
\* that has reserved characters of its own
C5_Witness ==
    /\ op = "add"
    /\ self = Mk(<<"<", "b", ">">>)
    /\ arg = Str(<<"<", "&">>)
    /\ res = Mk(<<"<", "b", ">", "&", "l", "t", ";", "&", "a", "m", "p", ";">>)

\* C6: partition(sep) and rpartition(sep) look for the escaped form of a
\* plain separator in the content, and the three parts are safe strings.
C6_PartitionEscapesSeparator ==
    /\ (op = "partition" /\ IsPlain(arg)) =>
           res = WrapParts(str_partition(self.s, ScanEscape(arg.s)))
    /\ (op = "rpartition" /\ IsPlain(arg)) =>
           res = WrapParts(str_rpartition(self.s, ScanEscape(arg.s)))

\* C6 fails here: Markup("a&lt;b").partition("<") finds nothing, the
\* separator was looked for as it came
C6_Witness ==
    /\ op = "partition"
    /\ self = Mk(<<"a", "&", "l", "t", ";", "b">>)
    /\ arg = Str(<<"<">>)
    /\ res = TupleV(<<Mk(<<"a", "&", "l", "t", ";", "b">>), Mk(<<>>), Mk(<<>>)>>)

\* an object with __html__ that returns text, and no __html_format__
RendersOnly(v) == v.k = "obj" /\ v.html \in {"str", "Markup"} /\ ~v.fmt

\* C7: a field of format or format_map filled with a value that has
\* __html__ only, and an empty specification, holds the text __html__
\* returned as it is, plain or safe; escape(value) and %s insert the same.
C7_HtmlFieldVerbatim ==
    RendersOnly(arg) =>
        /\ (op = "format" /\ self.s \in {<<"{", "}">>, <<"{", "0", "}">>}) =>
               res = Mk(arg.body)
        /\ (op = "format" /\ self.s = <<"<", "{", "}", ">">>) =>
               res = Mk(<<"<">> \o arg.body \o <<">">>)
        /\ (op \in {"format_kw", "format_map"} /\ self.s = <<"{", "k", "}">>) =>
               res = Mk(arg.body)
        /\ op \in {"escape", "Markup.escape"} => res = Mk(arg.body)
        /\ (op = "mod" /\ self.s = <<"%", "s">>) => res = Mk(arg.body)

\* C7 fails here: Markup("{}").format(obj), obj.__html__() the plain text
\* <b>, gives the escaped text
C7_Witness ==
    /\ op = "format"
    /\ self = Mk(<<"{", "}">>)
    /\ arg = ObjHtmlStr
    /\ res = Mk(<<"&", "l", "t", ";", "b", "&", "g", "t", ";">>)

\* C8: a format specification that cannot be honoured is an error: a field
\* with a non-empty specification and a value that has __html__ but no
\* __html_format__ ends format and format_map in ValueError; a value that
\* has both is rendered by __html_format__; a safe string's own
\* __html_format__ is a ValueError for a non-empty specification and the
\* safe string itself for the empty one.
C8_FormatSpecNotIgnored ==
    /\ (/\ \/ op = "format" /\ self.s = <<"{", ":", "s", "}">>
           \/ op \in {"format_kw", "format_map"} /\ self.s = <<"{", "k", ":", "s", "}">>
        /\ arg.k = "obj" /\ arg.html # "none" /\ ~arg.fmt)
       => res = Raise("ValueError")
    /\ (/\ \/ op = "format" /\ self.s \in {<<"{", "}">>, <<"{", ":", "s", "}">>}
           \/ op \in {"format_kw", "format_map"}
              /\ self.s \in {<<"{", "k", "}">>, <<"{", "k", ":", "s", "}">>}
        /\ arg.k = "obj" /\ arg.html # "none" /\ arg.fmt)
       => res = Mk(arg.fbody)
    /\ (op = "format" /\ self.s = <<"{", ":", "s", "}">> /\ IsSafe(arg))
       => res = Raise("ValueError")
    /\ op = "html_format" =>
           res = IF arg.s # <<>> THEN Raise("ValueError") ELSE self

\* C8 happens: a field with the specification s met a value with __html__
\* only
C8_Witness ==
    /\ op = "format"
    /\ self = Mk(<<"{", ":", "s", "}">>)
    /\ arg = ObjHtmlMarkup
    /\ res = Raise("ValueError")

\* what one conversion of % puts in for the value v: the escaped text for
\* s, the escaped repr for r, the number read from v itself for d, i and f
Inserted(c, v) ==
    CASE c = "s" -> IF has_html(v) THEN Bind(call_html(v), LAMBDA h : Str(h.s))
                    ELSE Str(ScanEscape(py_str(v).s))
      [] c = "r" -> Str(ScanEscape(py_repr(v)))
      [] c \in {"d", "i"} -> Bind(py_int(v), LAMBDA n : Str(IntText(n.n)))
      [] c = "f" -> Bind(py_float(v),
                         LAMBDA x : Str(IntText(x.w) \o <<".">> \o IntText(x.f)
                                        \o <<"0", "0", "0", "0", "0">>))

\* the safe string of the texts a, b, c in a row, or the first exception
Row(a, b, c) == Bind(a, LAMBDA x : Bind(b, LAMBDA y : Bind(c, LAMBDA z : Mk(x.s \o y.s \o z.s))))

\* C9: m % v takes the elements of a tuple v as the arguments, a value
\* with item lookup that is not text as the mapping of the keyed
\* conversions, and any other v, plain text too, as the one argument; %d,
\* %i and %f read the number from the value as it is, %s and %r put in
\* the escaped text and the escaped repr; the result is a safe string
\* around the text of m.
C9_ModWrapsOperands ==
    op = "mod" =>
        LET t == self.s
            one == IF arg.k = "tuple" /\ Len(arg.items) = 1 THEN arg.items[1] ELSE arg
            single == arg.k # "tuple" \/ Len(arg.items) = 1
            none == Str(<<>>)
        IN  /\ (single /\ Len(t) = 2 /\ t[1] = "%" /\ t[2] \in {"s", "r", "d", "i", "f"})
               => res = Row(none, Inserted(t[2], one), none)
            /\ (single /\ t = <<"<", "%", "s", ">">>)
               => res = Row(Str(<<"<">>), Inserted("s", one), Str(<<">">>))
            /\ (arg.k = "tuple" /\ Len(arg.items) = 2 /\ t = <<"%", "s", "%", "d">>)
               => res = Row(Inserted("s", arg.items[1]), Inserted("d", arg.items[2]), none)
            /\ (arg.k = "tuple" /\ Len(arg.items) = 2 /\ t = <<"%", "s">>)
               => res = Row(Inserted("s", arg.items[1]), Raise("TypeError"), none)
            /\ (arg.k = "dict" /\ Len(t) = 5 /\ SubSeq(t, 1, 4) = <<"%", "(", "k", ")">>)
               => res = Row(none, Inserted(t[5], arg.val), none)
            /\ (IsText(arg) /\ Len(t) = 5 /\ SubSeq(t, 1, 4) = <<"%", "(", "k", ")">>)
               => res = Raise("TypeError")
            /\ ~IsRaise(res) => IsSafe(res)

\* C9 happens: of the tuple ("a'", 12) the text went in escaped and the
\* number as it is
C9_Witness ==
    /\ op = "mod"
    /\ self = Mk(<<"%", "s", "%", "d">>)
    /\ arg = TupleV(<<Str(<<"a", "'">>), IntV(12)>>)
    /\ res = Mk(<<"a", "&", "#", "3", "9", ";", "1", "2">>)

\* C10: when __html__ of an object raises, escape(obj), Markup.escape(obj)
\* and Markup(obj) end in that failure: no safe string comes back, the
\* object's str() is not used instead.
C10_HtmlFailurePropagates ==
    (op \in {"escape", "Markup.escape", "Markup"} /\ arg.k = "obj" /\ arg.html = "raise")
    => /\ res = Raise("HtmlFailure")
       /\ self = Mk(<<>>)
       /\ made = "init"

\* C10 happens: Markup(obj) was tried with an object whose __html__ raises
C10_Witness ==
    /\ op = "Markup"
    /\ arg = ObjRaises
    /\ IsRaise(res)

\* a text whose only whitespace is single spaces between other characters
Normalized(s) ==
    /\ \A i \in 1..Len(s) : s[i] \in Whitespace => s[i] = " "
    /\ \A i \in 1..(Len(s) - 1) : ~(s[i] = " " /\ s[i + 1] = " ")
    /\ s # <<>> => (s[1] # " " /\ s[Len(s)] # " ")

\* C11: the text striptags gives to unescape has single spaces for its
\* whitespace and none at its ends, whatever the input, also when a removed
\* comment or tag had whitespace on both sides or stood at an end.
C11_StriptagsNormalizesWhitespace ==
    op = "striptags.done" => Normalized(arg.s)

\* C11 fails here: Markup("a <b> a").striptags() unescapes the text with
\* two spaces that the removed tag left side by side
C11_Witness ==
    /\ op = "striptags.done"
    /\ self = Mk(<<"a", " ", "<", "b", ">", " ", "a">>)
    /\ arg = Str(<<"a", " ", " ", "a">>)
    /\ res = arg

CommentOpenMark  == <<"<", "!", "-", "-">>
CommentCloseMark == <<"-", "-", ">">>

\* the first position from i on where the comment-close mark stands, 0
\* when there is none
CloseFrom(t, i) ==
    LET js == {j \in i..Len(t) : MatchAt(t, CommentCloseMark, j)}
    IN  IF js = {} THEN 0 ELSE CHOOSE j \in js : \A k \in js : j <= k

\* a comment-open mark with a comment-close mark after it is in the text
HasComment(t) ==
    \E i \in 1..Len(t) : MatchAt(t, CommentOpenMark, i) /\ CloseFrom(t, i) # 0

\* a < with a > after it is in the text
HasTag(t) ==
    \E i \in 1..Len(t) : t[i] = "<" /\ \E j \in i..Len(t) : t[j] = ">"

\* every comment-open mark of the text has a comment-close mark after it
CommentsClosed(t) ==
    \A i \in 1..Len(t) : MatchAt(t, CommentOpenMark, i) => CloseFrom(t, i) # 0

\* the positions of the text inside a comment: from a comment-open mark
\* through the first comment-close mark after it
InComment(t) ==
    {p \in 1..Len(t) :
        \E i \in 1..p : /\ MatchAt(t, CommentOpenMark, i)
                        /\ CloseFrom(t, i) # 0
                        /\ p <= CloseFrom(t, i) + 2}

RECURSIVE Pick(_, _, _)
\* the characters of t at the positions in keep, from position i on
Pick(t, keep, i) ==
    IF i > Len(t) THEN <<>>
    ELSE (IF i \in keep THEN <<t[i]>> ELSE <<>>) \o Pick(t, keep, i + 1)

\* the text outside the comments
OutsideComments(t) == Pick(t, (1..Len(t)) \ InComment(t), 1)

RECURSIVE IsSubseq(_, _)
\* a is b with some characters left out
IsSubseq(a, b) ==
    IF a = <<>> THEN TRUE
    ELSE IF b = <<>> THEN FALSE
    ELSE IF Head(a) = Head(b) THEN IsSubseq(Tail(a), Tail(b))
    ELSE IsSubseq(a, Tail(b))

RECURSIVE DecodeLt(_)
\* the text with every &lt; turned into <
DecodeLt(t) ==
    IF t = <<>> THEN <<>>
    ELSE IF MatchAt(t, <<"&", "l", "t", ";">>, 1)
    THEN <<"<">> \o DecodeLt(SubSeq(t, 5, Len(t)))
    ELSE <<Head(t)>> \o DecodeLt(Tail(t))

\* the text striptags has come to once the comment loop is over
AfterComments == IF op = "striptags.done" THEN arg.s ELSE res.s

\* C12: striptags is through with the comments before it removes a tag:
\* while tags are removed and after, the text holds no comment that could
\* still be removed; when every comment-open mark of the input has its
\* comment-close mark, what is left is made of characters from outside the
\* comments only, a > or a tag inside a comment makes no difference; and
\* unescape sees the text only when no tag is left to remove, so the < it
\* makes of &lt; stays.
C12_CommentsBeforeTagsBeforeDecoding ==
    /\ op \in {"striptags.tags", "striptags.decode", "striptags.done"} =>
           /\ ~HasComment(AfterComments)
           /\ (Normalized(self.s) /\ CommentsClosed(self.s)) =>
                  IsSubseq(AfterComments, OutsideComments(self.s))
    /\ op \in {"striptags.decode", "striptags.done"} => ~HasTag(AfterComments)
    /\ op = "striptags.done" => res = Str(DecodeLt(arg.s))

\* C12 happens: of a<!-- > -->a, a comment with a > in it, the two a are
\* left
C12_Witness ==
    /\ op = "striptags.done"
    /\ self = Mk(<<"a", " ", "<", "!", "-", "-", " ", ">", " ", "-", "-", ">", " ", "a">>)
    /\ res = Str(<<"a", " ", " ", "a">>)

\* the text is one decimal reference, &#...;
IsDecRef(t) ==
    /\ Len(t) >= 4 /\ t[1] = "&" /\ t[2] = "#" /\ t[Len(t)] = ";"
    /\ \A i \in 3..(Len(t) - 1) : t[i] \in DecDigits

\* the text is one hexadecimal reference, &#x...;
IsHexRef(t) ==
    /\ Len(t) >= 5 /\ t[1] = "&" /\ t[2] = "#" /\ t[3] \in {"x", "X"} /\ t[Len(t)] = ";"
    /\ \A i \in 4..(Len(t) - 1) : t[i] \in HexDigits

\* the code point a numeric reference names
RefValue(t) ==
    IF IsHexRef(t) THEN ParseInt(SubSeq(t, 4, Len(t) - 1), 16)
    ELSE ParseInt(SubSeq(t, 3, Len(t) - 1), 10)

\* the code points HTML5 has no character for: control characters and
\* DEL; a reference to one is dropped
DroppedCodes == (1..8) \cup {11} \cup (14..31) \cup {127}

\* the text after an ampersand starts a numeric reference, or a name that
\* HTML5 knows, lt (with or without its semicolon) and ll; being the ones
\* the texts here can spell
StartsReference(r) ==
    \/ Len(r) >= 2 /\ r[1] = "#" /\ r[2] \in DecDigits
    \/ Len(r) >= 3 /\ r[1] = "#" /\ r[2] \in {"x", "X"} /\ r[3] \in HexDigits
    \/ MatchAt(r, <<"l", "t">>, 1)
    \/ MatchAt(r, <<"l", "l", ";">>, 1)

\* no ampersand of the text starts a reference that is recognized
NoReference(t) ==
    \A i \in 1..Len(t) : t[i] = "&" => ~StartsReference(SubSeq(t, i + 1, Len(t)))

\* C13 as it stands: unescape puts the character in the place of every
\* reference it recognizes and leaves every other one as it is, so that of
\* a text that is one numeric reference either one character is left or
\* the text itself.
C13_ReferenceReplacedOrKept ==
    (op = "unescape" /\ (IsDecRef(self.s) \/ IsHexRef(self.s))) =>
        (Len(res.s) = 1 \/ res.s = self.s)

\* C13, amended: unescape never fails and gives plain text; a text
\* without a recognized reference comes back as it is; &lt; and &lt give <;
\* a numeric reference gives its character, but nothing when the code
\* point is a control character or DEL; &foo&#x3b; gives &foo;, and &foo;
\* gives &foo; again.
C13_UnescapeReferences ==
    op = "unescape" =>
        /\ res.k = "str"
        /\ NoReference(self.s) => res.s = self.s
        /\ self.s \in {<<"&", "l", "t", ";">>, <<"&", "l", "t">>} => res.s = <<"<">>
        /\ (IsDecRef(self.s) \/ IsHexRef(self.s)) =>
               LET v == RefValue(self.s)
               IN  /\ v \in 32..126 => res.s = <<Ascii[v - 31]>>
                   /\ v = 9 => res.s = <<"\t">>
                   /\ v \in DroppedCodes => res.s = <<>>
                   /\ Len(res.s) <= 1
        /\ self.s = <<"&", "f", "o", "o", "&", "#", "x", "3", "b", ";">>
               => res.s = <<"&", "f", "o", "o", ";">>
        /\ self.s = <<"&", "f", "o", "o", ";">> => res.s = self.s

\* C13 happens: the result &foo; of unescaping &foo&#x3b; was wrapped and
\* unescaped again
C13_Witness ==
    /\ op = "unescape"
    /\ made = "unescape"
    /\ self = Mk(<<"&", "f", "o", "o", ";">>)
    /\ res = Str(<<"&", "f", "o", "o", ";">>)

\* C14: unescape and striptags give plain text, never a safe string, so
\* that added to a safe string their result is escaped again: s +
\* s.unescape() is s followed by the escaped form of the decoded text.
C14_DecodersReturnPlainText ==
    /\ op \in {"unescape", "striptags"} => IsPlain(res)
    /\ op = "add_unescaped" =>
           /\ IsPlain(arg)
           /\ res = Mk(self.s \o ScanEscape(arg.s))

\* C14 happens: a safe string with an entity was decoded and the decoded
\* text added to it
C14_Witness ==
    /\ op = "add_unescaped"
    /\ self = Mk(<<"a", "&", "l", "t", ";", "b">>)
    /\ arg = Str(<<"a", "<", "b">>)
    /\ res = Mk(<<"a", "&", "l", "t", ";", "b", "a", "&", "l", "t", ";", "b">>)

\* a removal loop has nothing to do on the text: the start mark is not in
\* it, or its first start mark has no end mark at or after it
LoopOver(t, startMark, endMark) ==
    \A i \in 1..Len(t) :
        (MatchAt(t, startMark, i) /\ \A h \in 1..(i - 1) : ~MatchAt(t, startMark, h))
            => \A j \in i..Len(t) : ~MatchAt(t, endMark, j)

\* a turn of the removal loop at the place pc, which goes on to the place
\* after: the loop turns only when it has something to do, and the text is
\* then shorter by least characters or more; it is left when it has nothing
\* to do, with the text as it is
LoopStep(pc, after, startMark, endMark, least) ==
    /\ (op = pc /\ op' = pc) =>
           /\ ~LoopOver(res.s, startMark, endMark)
           /\ Len(res'.s) + least <= Len(res.s)
    /\ (op = pc /\ op' = after) =>
           /\ LoopOver(res.s, startMark, endMark)
           /\ res' = res

\* C15: striptags comes to its end on every text: a turn of the comment
\* loop shortens the text by 3 characters or more, a turn of the tag loop
\* by 1 or more; either loop is left as soon as the text has no start mark
\* or its first start mark has no end mark at or after it, and leaves the
\* text as it is, so that both loops are left and the text comes to the
\* decoding; the call then returns a text, no error.
C15_StriptagsTerminates ==
    /\ [][LoopStep("striptags.comments", "striptags.tags",
                   CommentOpenMark, CommentCloseMark, 3)]_vars
    /\ [][LoopStep("striptags.tags", "striptags.decode", <<"<">>, <<">">>, 1)]_vars
    /\ (op = "striptags.comments") ~> (op = "striptags.decode")
    /\ [](op = "striptags.done" => IsPlain(res))

\* C15 happens: of <!----><b> the comment loop took the comment and the tag
\* loop the tag
C15_Witness ==
    /\ op = "striptags.tags"
    /\ self = Mk(<<"<", "!", "-", "-", "-", "-", ">", "<", "b", ">">>)
    /\ arg = Str(<<"<", "b", ">">>)
    /\ res = Str(<<>>)

====
